---- MODULE Spec2Model ----
(***************************************************************************)
(* The device registry of dns-monitoring/device-mapper.py (class           *)
(* DeviceMapper and its command-line dispatch) and the traffic analyzer of *)
(* dns-monitoring/dns-traffic-analyzer.py (class DNSTrafficAnalyzer and    *)
(* its main) as state machines.                                            *)
(*                                                                         *)
(* Strings that the code takes apart or builds (an IP address, a device    *)
(* name, a description) are sequences of string tokens; concatenation is   *)
(* \o.  A JSON object is a function from field names to values, so a       *)
(* field may be present or absent as in a Python dict.                     *)
(***************************************************************************)
EXTENDS Naturals, Sequences, FiniteSets, TLC

\* ------------------------------------------------------------- bounds
\* Longest log file, in lines.
MaxLogLen == 2
\* Calls a caller makes on one DeviceMapper object.
MaxCalls == 2
\* Runs of main on the same registry file.
MaxRuns == 2
\* The clock runs from 0 to MaxClock seconds.
MaxClock == 1
\* Seconds in a day of the model's clock.
DayLen == 1
\* Longest log file the traffic analyzer reads, in lines.
MaxTrafficLen == 3

\* ---------------------------------------------------- program constants
\* list(device_domains[ip])[:5]
TopDomains == 5
\* self.domain_stats.most_common(20)
TopReported == 20
\* info.get('common_domains', [])[:3]
TopRouted == 3
\* self.queries[-10:]
RecentShown == 10

\* ------------------------------------------------------------- values
IP_A == <<"1", "0", ".", "0", ".", "0", ".", "5">>
IP_B == <<"1", "0", ".", "0", ".", "0", ".", "1", "2">>
IPs == {IP_A, IP_B}
NoIp == <<>>
Domains == {"x.com", "y.com"}

Put(f, k, v) == [y \in DOMAIN f \cup {k} |-> IF y = k THEN v ELSE f[y]]

Min(a, b) == IF a <= b THEN a ELSE b

\* A variant of the slice that keeps the whole list.
TakeAll(s, n) == s

\* s[:n]
Take(s, n) == SubSeq(s, 1, Min(n, Len(s)))

\* Every ordering of the finite set S, as sequences without repetition.
RECURSIVE Orderings(_)
Orderings(S) ==
    IF S = {} THEN {<<>>}
    ELSE UNION {{<<x>> \o s : s \in Orderings(S \ {x})} : x \in S}

\* datetime.now().strftime("%Y-%m-%d"): the date drops the time of day.
DateOf(t) == t \div DayLen

\* datetime.now().strftime("%Y-%m-%d %H:%M:%S"): to the second.
StampOf(t) == t

\* ip.split('.')[-1]: the tokens after the last dot.
RECURSIVE LastOctetFrom(_, _)
LastOctetFrom(ip, i) ==
    IF i = 0 \/ ip[i] = "." THEN SubSeq(ip, i + 1, Len(ip))
    ELSE LastOctetFrom(ip, i - 1)

LastOctet(ip) == LastOctetFrom(ip, Len(ip))

\* ------------------------------------------------------------ devices
\* A device record that is a JSON object (a dict); any other JSON value
\* stored under an IP (here a string) is a malformed record.
IsDict(rec) == "raw" \notin DOMAIN rec

MalformedDev == [raw |-> "not-an-object"]

\* The record add_device stores.
NewDevice(name, device_type, category, description, t) ==
    [name |-> name, type |-> device_type, category |-> category,
     description |-> description, added |-> StampOf(t)]

\* self.data["devices"][ip] = {...}: the whole record is replaced.
AddDeviceTo(devs, ip, name, device_type, category, description, t) ==
    Put(devs, ip, NewDevice(name, device_type, category, description, t))

\* A variant that names the device after the whole address.
AutoNameWholeIp(ip) == <<"Auto-detected-">> \o ip

\* f"Auto-detected-{ip.split('.')[-1]}"
AutoName(ip) == <<"Auto-detected-">> \o LastOctet(ip)

\* f"Auto-detected from DNS logs with {count} queries"
AutoDescription(count) ==
    <<"Auto-detected from DNS logs with ", ToString(count), " queries">>

\* A variant that adds the run's count to the stored one.
SetActivityAccumulating(rec, count, common) ==
    Put(Put(rec, "query_count",
            (IF "query_count" \in DOMAIN rec THEN rec.query_count ELSE 0) + count),
        "common_domains", common)

\* The two assignments of query_count and common_domains.
SetActivity(rec, count, common) ==
    Put(Put(rec, "query_count", count), "common_domains", common)

\* The default of dict.get in get_device_info.
Placeholder(ip) ==
    [name |-> <<"Unknown-">> \o LastOctet(ip), type |-> <<"Unknown">>,
     category |-> <<"Unknown">>,
     description |-> <<"Unidentified network device">>]

\* What get_device_info returns.
GetDeviceInfo(devs, ip) == IF ip \in DOMAIN devs THEN devs[ip] ELSE Placeholder(ip)

\* A variant that reads with dict.setdefault, which stores the default.
DevicesAfterSetdefault(devs, ip) ==
    IF ip \in DOMAIN devs THEN devs ELSE Put(devs, ip, Placeholder(ip))

\* The device mapping after get_device_info: dict.get inserts nothing.
DevicesAfterGet(devs, ip) == devs

\* ------------------------------------------------------- the device map
EmptyInsights ==
    [device_types |-> <<>>, top_services |-> <<>>, activity_patterns |-> <<>>]

NetworkRange == <<"192.168.1.0/24">>
SourceLabel == <<"Control D DNS log analysis">>

CreateEmptyMap(t) ==
    [metadata |-> [last_updated |-> DateOf(t), network_range |-> NetworkRange,
                   total_devices |-> 0, source |-> SourceLabel],
     devices |-> <<>>,
     network_insights |-> EmptyInsights]

\* No DeviceMapper object exists.
NoData == [none |-> TRUE]

\* A variant that stamps the date and leaves the count as it was loaded.
StampDateOnly(d, t) == [d EXCEPT !.metadata.last_updated = DateOf(t)]

\* The first two statements of save_device_map.
StampMetadata(d, t) ==
    [d EXCEPT !.metadata.last_updated = DateOf(t),
              !.metadata.total_devices = Cardinality(DOMAIN d.devices)]

\* ----------------------------------------------------- the file's text
\* json.dump writes the text piece by piece: the opening brace, the
\* metadata block, one piece per device, the insights block, the closing
\* brace.  The order of the device keys is that of IpOrder (no operation of
\* the program reads the order of the dict).
IpOrder == <<IP_B, IP_A>>

RECURSIVE DeviceChunks(_, _)
DeviceChunks(devs, i) ==
    IF i > Len(IpOrder) THEN <<>>
    ELSE (IF IpOrder[i] \in DOMAIN devs
            THEN <<[t |-> "device", ip |-> IpOrder[i], v |-> devs[IpOrder[i]]]>>
            ELSE <<>>) \o DeviceChunks(devs, i + 1)

\* A variant that writes no device after the first.
DumpFirstDeviceOnly(d) ==
    <<[t |-> "open"], [t |-> "metadata", v |-> d.metadata]>>
    \o Take(DeviceChunks(d.devices, 1), 1)
    \o <<[t |-> "insights", v |-> d.network_insights], [t |-> "close"]>>

Dump(d) ==
    <<[t |-> "open"], [t |-> "metadata", v |-> d.metadata]>>
    \o DeviceChunks(d.devices, 1)
    \o <<[t |-> "insights", v |-> d.network_insights], [t |-> "close"]>>

\* Whether json.load accepts the text: anything but a complete document
\* raises JSONDecodeError.
Decodable(text) ==
    /\ Len(text) >= 4
    /\ text[1].t = "open"
    /\ text[2].t = "metadata"
    /\ text[Len(text) - 1].t = "insights"
    /\ text[Len(text)].t = "close"
    /\ \A i \in 3..(Len(text) - 2) : text[i].t = "device"

\* json.load of a decodable text (of a repeated key the last value wins).
Decode(text) ==
    LET idx == 3..(Len(text) - 2)
        keys == {text[i].ip : i \in idx}
        lastOf(k) == CHOOSE i \in idx :
                        /\ text[i].ip = k
                        /\ \A j \in idx : text[j].ip = k => j <= i
    IN [metadata |-> text[2].v,
        devices |-> [k \in keys |-> text[lastOf(k)].v],
        network_insights |-> text[Len(text) - 1].v]

\* _load_device_map, for a file open() can read.
LoadDeviceMap(f, t) ==
    IF ~f.exists THEN CreateEmptyMap(t)
    ELSE IF ~Decodable(f.text) THEN CreateEmptyMap(t)
    ELSE Decode(f.text)

\* ------------------------------------------------------------ the log
NonQueryKinds == {"garbage", "nonobj", "nomarker", "nomatch"}

Lines ==
    {[kind |-> k, ip |-> NoIp, domain |-> ""] : k \in NonQueryKinds}
    \cup {[kind |-> "query", ip |-> IP_A, domain |-> d] : d \in Domains}
    \cup {[kind |-> "query", ip |-> IP_B, domain |-> "x.com"]}

Logs == UNION {[1..n -> Lines] : n \in 0..MaxLogLen}

LogFiles ==
    {[exists |-> FALSE, lines |-> <<>>]} \cup {[exists |-> TRUE, lines |-> l] : l \in Logs}

NoActivity == [err |-> FALSE, order |-> <<>>, count |-> <<>>, doms |-> <<>>]

\* A variant in which a line that is not JSON ends the analysis.
ScanLineStrict(acc, line) ==
    IF acc.err \/ line.kind \in {"garbage", "nonobj"} THEN [acc EXCEPT !.err = TRUE]
    ELSE IF line.kind = "query" THEN
        LET seen == line.ip \in DOMAIN acc.count
        IN [err |-> FALSE,
            order |-> IF seen THEN acc.order ELSE Append(acc.order, line.ip),
            count |-> Put(acc.count, line.ip,
                          (IF seen THEN acc.count[line.ip] ELSE 0) + 1),
            doms |-> Put(acc.doms, line.ip,
                         (IF seen THEN acc.doms[line.ip] ELSE {}) \cup {line.domain})]
    ELSE acc

\* The body of the loop over the lines.  kind is what the line is:
\*   garbage   not JSON: json.loads raises JSONDecodeError, the line is skipped
\*   nonobj    JSON, but no object with a string message: log_entry.get or
\*             the `in` test raises, which the inner except does not catch
\*   nomarker  an object whose message (or its default '') lacks QUERY
\*   nomatch   QUERY is in the message, the pattern does not match
\*   query     the pattern matches: group 1 is the IP, group 2 the domain
ScanLine(acc, line) ==
    IF acc.err THEN acc
    ELSE IF line.kind = "nonobj" THEN [acc EXCEPT !.err = TRUE]
    ELSE IF line.kind = "query" THEN
        LET seen == line.ip \in DOMAIN acc.count
        IN [err |-> FALSE,
            order |-> IF seen THEN acc.order ELSE Append(acc.order, line.ip),
            count |-> Put(acc.count, line.ip,
                          (IF seen THEN acc.count[line.ip] ELSE 0) + 1),
            doms |-> Put(acc.doms, line.ip,
                         (IF seen THEN acc.doms[line.ip] ELSE {}) \cup {line.domain})]
    ELSE acc

RECURSIVE ScanFrom(_, _, _)
ScanFrom(lines, i, acc) ==
    IF i > Len(lines) THEN acc ELSE ScanFrom(lines, i + 1, ScanLine(acc, lines[i]))

\* device_activity and device_domains after the with block; order is the
\* order of the keys of device_activity (first seen first).
ScanLog(lines) == ScanFrom(lines, 1, NoActivity)

\* A variant that stores a fresh auto-detected record for every observed IP.
ReconcileOneReplacing(devs, act, pick, ip, t) ==
    LET count == act.count[ip]
        common == Take(pick[ip], TopDomains)
        added == AddDeviceTo(devs, ip, AutoName(ip), <<"Unknown">>, <<"Unknown">>,
                             AutoDescription(count), t)
    IN Put(added, ip, SetActivity(added[ip], count, common))

\* One pass of the loop "for ip, count in device_activity.items()".
\* pick[ip] is the order in which list(device_domains[ip]) lists the set.
ReconcileOne(devs, act, pick, ip, t) ==
    LET count == act.count[ip]
        common == Take(pick[ip], TopDomains)
        added == AddDeviceTo(devs, ip, AutoName(ip), <<"Unknown">>, <<"Unknown">>,
                             AutoDescription(count), t)
    IN IF ip \in DOMAIN devs
         THEN Put(devs, ip, SetActivity(devs[ip], count, common))
         ELSE Put(added, ip, SetActivity(added[ip], count, common))

\* Whether the pass for ip raises: item assignment on a record that is no
\* dict raises TypeError.
ReconcileRaises(devs, ip) == ip \in DOMAIN devs /\ ~IsDict(devs[ip])

\* The loop from its i-th key on.  An exception leaves the loop and the
\* function: `except Exception` returns False, the updates made so far stay.
RECURSIVE ReconcileFrom(_, _, _, _, _)
ReconcileFrom(devs, act, pick, i, t) ==
    IF i > Len(act.order) THEN [ok |-> TRUE, devices |-> devs]
    ELSE IF ReconcileRaises(devs, act.order[i]) THEN [ok |-> FALSE, devices |-> devs]
    ELSE ReconcileFrom(ReconcileOne(devs, act, pick, act.order[i], t),
                       act, pick, i + 1, t)

\* analyze_dns_log: its return value and the device mapping it leaves.
AnalyzeDnsLog(devs, log, pick, t) ==
    IF ~log.exists THEN [ok |-> FALSE, devices |-> devs]
    ELSE LET act == ScanLog(log.lines)
         IN IF act.err THEN [ok |-> FALSE, devices |-> devs]
            ELSE ReconcileFrom(devs, act, pick, 1, t)

\* The orders list(set) may produce, one per observed IP.
RECURSIVE PicksOver(_, _)
PicksOver(doms, keys) ==
    IF keys = {} THEN {<<>>}
    ELSE LET ip == CHOOSE k \in keys : TRUE
         IN {Put(p, ip, o) : p \in PicksOver(doms, keys \ {ip}), o \in Orderings(doms[ip])}

Picks(log) == LET act == ScanLog(log.lines) IN PicksOver(act.doms, DOMAIN act.doms)

\* ------------------------------------------------------------ the state
VARIABLES
    file,      \* the registry file: whether it exists, may be opened, its text
    logfile,   \* the DNS log file the resolver wrote
    data,      \* self.data of the DeviceMapper object, NoData when there is none
    pc,        \* down | ready | tosave | writing | exit
    cmd,       \* what drives the object: main's --add or --analyze, or a caller (lib)
    now,       \* the clock, in seconds
    out,       \* during a save, the pieces json.dump has still to write
    last,      \* the last call: its name, argument, result and returned value
    calls,     \* calls the caller has made on the object
    runs,      \* runs of main so far
    hist,      \* of the last save: the file before it, the text it was to write,
               \* self.data when it was called, whether it returned True
    order,     \* the order in which this process lists the set of domains of each
               \* client (the hashes of its strings are fixed when it starts)
    queries,       \* self.queries of the DNSTrafficAnalyzer object
    client_stats,  \* self.client_stats: client IP -> list of its events
    domain_stats,  \* self.domain_stats: a Counter, keys in insertion order
    query_types,   \* self.query_types: a Counter
    tpc,       \* none | new | reading | analyzed | reported | notfound | raised
    tpos,      \* lines of the log analyze_log_file has read
    exc,       \* the exception that left analyze_log_file, "none" if none did
    report     \* what generate_report printed

\* The state of the traffic analyzer.
tvars == <<queries, client_stats, domain_stats, query_types, tpc, tpos, exc, report>>

\* The state of the device mapper and its files.
mvars == <<file, data, pc, cmd, now, out, last, calls, runs, hist, order>>

vars == <<file, logfile, data, pc, cmd, now, out, last, calls, runs, hist, order, tvars>>

NoVal == [none |-> TRUE]

Called(op, ip, ok, streak, val) ==
    [op |-> op, ip |-> ip, ok |-> ok, streak |-> streak, val |-> val]

\* ------------------------------------------------- registry files at start
PlainDev ==
    [name |-> <<"Laptop">>, type |-> <<"Computer">>, category |-> <<"Work">>,
     description |-> <<"Office laptop">>, added |-> 0]

\* A device an earlier analysis of another log has left its activity on.
ActiveDev == SetActivity(PlainDev, 9, <<"old.com">>)

InitRegistries ==
    {r \in UNION {[S -> {ActiveDev, MalformedDev}] : S \in SUBSET IPs} :
        IP_B \in DOMAIN r => r[IP_B] = ActiveDev}

RegistryText(devs) ==
    Dump([metadata |-> [last_updated |-> 0, network_range |-> NetworkRange,
                        total_devices |-> Cardinality(DOMAIN devs),
                        source |-> SourceLabel],
          devices |-> devs,
          network_insights |-> EmptyInsights])

AbsentFile == [exists |-> FALSE, perm |-> TRUE, text |-> <<>>]

InitFiles ==
    {AbsentFile,
     [exists |-> TRUE, perm |-> TRUE, text |-> <<[t |-> "junk"]>>],
     [exists |-> TRUE, perm |-> FALSE, text |-> RegistryText([i \in {IP_A} |-> ActiveDev])]}
    \cup {[exists |-> TRUE, perm |-> TRUE, text |-> RegistryText(r)] : r \in InitRegistries}

QueryLine(ip, d) == [kind |-> "query", ip |-> ip, domain |-> d]

\* The logs main is run on: none, one the analysis gives up on, one with a
\* query of each client, one with two domains of one client.
MainLogFiles ==
    {[exists |-> FALSE, lines |-> <<>>],
     [exists |-> TRUE, lines |-> <<QueryLine(IP_A, "x.com"), [kind |-> "nonobj", ip |-> NoIp, domain |-> ""]>>],
     [exists |-> TRUE, lines |-> <<QueryLine(IP_A, "x.com"), QueryLine(IP_B, "x.com")>>],
     [exists |-> TRUE, lines |-> <<QueryLine(IP_A, "y.com"), QueryLine(IP_A, "x.com")>>]}

NoHist == [before |-> AbsentFile, text |-> <<>>, data |-> NoData, done |-> FALSE]

NoReport == [none |-> TRUE]

\* No process runs.
NoOrder == <<>>

\* No DNSTrafficAnalyzer object exists.
NoAnalyzer ==
    /\ queries = <<>>
    /\ client_stats = <<>>
    /\ domain_stats = [keys |-> <<>>, n |-> <<>>]
    /\ query_types = [keys |-> <<>>, n |-> <<>>]
    /\ tpc = "none"
    /\ tpos = 0
    /\ exc = "none"
    /\ report = NoReport

\* The registry file and the log are on disk, no process runs.
Init ==
    /\ file \in InitFiles
    /\ logfile \in MainLogFiles
    /\ data = NoData
    /\ pc = "down"
    /\ cmd = "none"
    /\ now = 0
    /\ out = <<>>
    /\ last = Called("init", NoIp, TRUE, 0, NoVal)
    /\ calls = 0
    /\ runs = 0
    /\ hist = NoHist
    /\ order = NoOrder
    /\ NoAnalyzer

\* A caller holds a DeviceMapper constructed on a registry file.
InitApi ==
    /\ file = AbsentFile
    /\ logfile \in LogFiles
    /\ data \in {Decode(RegistryText(r)) : r \in InitRegistries}
    /\ pc = "ready"
    /\ cmd = "lib"
    /\ now = 0
    /\ out = <<>>
    /\ last = Called("construct", NoIp, TRUE, 0, NoVal)
    /\ calls = 0
    /\ runs = 0
    /\ hist = NoHist
    /\ order \in Picks(logfile)
    /\ NoAnalyzer

\* ----------------------------------------------------------- the actions
\* The branches of main that change the registry.
Cmds == {"add", "analyze"}

\* open(self.device_map_file, 'r') raises an OSError other than
\* FileNotFoundError (PermissionError): _load_device_map catches neither.
OpenForReadRaises(f) == f.exists /\ ~f.perm

\* mapper = DeviceMapper(args.device_map), at time t.
Construct(c, t) ==
    /\ pc = "down"
    /\ runs < MaxRuns
    /\ runs' = runs + 1
    /\ now' = t
    /\ IF OpenForReadRaises(file)
         THEN /\ data' = NoData
              /\ pc' = "down"
              /\ cmd' = "none"
              /\ last' = Called("construct", NoIp, FALSE, 0, NoVal)
         ELSE /\ data' = LoadDeviceMap(file, t)
              /\ pc' = "ready"
              /\ cmd' = c
              /\ last' = Called("construct", NoIp, TRUE, 0, NoVal)
    /\ order' \in IF OpenForReadRaises(file) THEN {NoOrder} ELSE Picks(logfile)
    /\ UNCHANGED <<file, logfile, out, calls, hist, tvars>>

\* Where main goes after add_device: to save_device_map.
AfterAdd(c) == IF c = "add" THEN "tosave" ELSE "ready"

\* A variant of main that saves whatever analyze_dns_log returned.
AfterAnalyzeIgnoringResult(c, ok) == IF c = "analyze" THEN "tosave" ELSE "ready"

\* main: `if mapper.analyze_dns_log(args.analyze): mapper.save_device_map()`
AfterAnalyze(c, ok) ==
    IF c = "analyze" THEN (IF ok THEN "tosave" ELSE "exit") ELSE "ready"

\* The arguments an operator gives --add.
OperatorName == <<"Smart TV">>
OperatorType == <<"Entertainment">>
OperatorCategory == <<"Media">>
OperatorDescription == <<"Living room TV">>

\* A caller's call counts against MaxCalls; main makes one call a run.
MayCall == pc = "ready" /\ (cmd = "lib" => calls < MaxCalls)

Counted == IF cmd = "lib" THEN calls + 1 ELSE calls

\* The clock when a call reads it: a caller's calls are spread in time, a
\* run of main is over within the second it started in.
Times == IF cmd = "lib" THEN now..MaxClock ELSE {now}

AddDevice(ip, t) ==
    /\ MayCall
    /\ cmd \in {"lib", "add"}
    /\ calls' = Counted
    /\ now' = t
    /\ data' = [data EXCEPT !.devices =
                   AddDeviceTo(data.devices, ip, OperatorName, OperatorType,
                               OperatorCategory, OperatorDescription, t)]
    /\ pc' = AfterAdd(cmd)
    /\ last' = Called("add", ip, TRUE, 0, NoVal)
    /\ UNCHANGED <<file, logfile, cmd, out, runs, hist, order, tvars>>

Analyze(pick, t) ==
    /\ MayCall
    /\ cmd \in {"lib", "analyze"}
    /\ calls' = Counted
    /\ now' = t
    /\ LET r == AnalyzeDnsLog(data.devices, logfile, pick, t)
           streak == IF ~r.ok THEN 0
                     ELSE IF last.op = "analyze" /\ last.ok THEN Min(last.streak + 1, 2)
                     ELSE 1
       IN /\ data' = [data EXCEPT !.devices = r.devices]
          /\ pc' = AfterAnalyze(cmd, r.ok)
          /\ last' = Called("analyze", NoIp, r.ok, streak, NoVal)
    /\ UNCHANGED <<file, logfile, cmd, out, runs, hist, order, tvars>>

GetInfo(ip) ==
    /\ MayCall
    /\ cmd = "lib"
    /\ calls' = Counted
    /\ data' = [data EXCEPT !.devices = DevicesAfterGet(data.devices, ip)]
    /\ last' = Called("get", ip, TRUE, 0, GetDeviceInfo(data.devices, ip))
    /\ UNCHANGED <<file, logfile, pc, cmd, now, out, runs, hist, order, tvars>>

\* The characters of an address in the order of their code points.
Chars == <<".", "0", "1", "2", "3", "4", "5", "6", "7", "8", "9">>

CharRank(c) == CHOOSE i \in DOMAIN Chars : Chars[i] = c

\* A variant that orders addresses by their length.
ShorterFirst(a, b) == Len(a) < Len(b)

\* a < b on str: by the first character in which they differ, a proper
\* prefix first.
RECURSIVE StrLess(_, _)
StrLess(a, b) ==
    IF b = <<>> THEN FALSE
    ELSE IF a = <<>> THEN TRUE
    ELSE IF Head(a) = Head(b) THEN StrLess(Tail(a), Tail(b))
    ELSE CharRank(Head(a)) < CharRank(Head(b))

\* sorted(self.data["devices"].items()): the keys differ, so the tuples are
\* ordered by their keys.
RECURSIVE SortedIps(_)
SortedIps(S) ==
    IF S = {} THEN <<>>
    ELSE LET m == CHOOSE x \in S : \A y \in S \ {x} : StrLess(x, y)
         IN <<m>> \o SortedIps(S \ {m})

\* info.get(k, default)
Get(info, k, default) == IF k \in DOMAIN info THEN info[k] ELSE default

RoutingEntry(ip, info) ==
    [ip |-> ip,
     name |-> Get(info, "name", <<"Unknown">>),
     type |-> Get(info, "type", <<"Unknown">>),
     category |-> Get(info, "category", <<"Unknown">>),
     activity |-> Get(info, "query_count", 0),
     top_domains |-> Take(Get(info, "common_domains", <<>>), TopRouted),
     last_seen |-> Get(info, "added", <<"Unknown">>)]

\* generate_routing_table: on a record that is no dict info.get raises
\* AttributeError and no table is returned.
GenerateRoutingTable(devs) ==
    IF \E ip \in DOMAIN devs : ~IsDict(devs[ip])
      THEN [raised |-> TRUE, table |-> <<>>]
      ELSE [raised |-> FALSE,
            table |-> LET ips == SortedIps(DOMAIN devs)
                      IN [i \in DOMAIN ips |-> RoutingEntry(ips[i], devs[ips[i]])]]

RoutingTable ==
    /\ MayCall
    /\ cmd = "lib"
    /\ calls' = Counted
    /\ LET r == GenerateRoutingTable(data.devices)
       IN last' = Called("routing", NoIp, ~r.raised, 0, r.table)
    /\ UNCHANGED <<file, logfile, data, pc, cmd, now, out, runs, hist, order, tvars>>

\* open(self.device_map_file, 'w') raises when the file may not be opened.
OpenForWriteRaises(f) == f.exists /\ ~f.perm

\* What open(..., 'w') leaves on disk before anything is written: the file
\* is created or truncated.
OpenedForWrite(f) == [exists |-> TRUE, perm |-> TRUE, text |-> <<>>]

\* save_device_map up to and including open(): the metadata is stamped, then
\* the file is opened for writing, or open raises and False is returned.
SaveOpen ==
    /\ pc = "tosave"
    /\ data' = StampMetadata(data, now)
    /\ hist' = [before |-> file, text |-> Dump(data'), data |-> data, done |-> FALSE]
    /\ IF OpenForWriteRaises(file)
         THEN /\ file' = file
              /\ out' = <<>>
              /\ pc' = "exit"
              /\ last' = Called("save", NoIp, FALSE, 0, NoVal)
         ELSE /\ file' = OpenedForWrite(file)
              /\ out' = Dump(data')
              /\ pc' = "writing"
              /\ last' = Called("saving", NoIp, TRUE, 0, NoVal)
    /\ UNCHANGED <<logfile, cmd, now, calls, runs, order, tvars>>

\* json.dump writes its next piece.
SaveWrite ==
    /\ pc = "writing"
    /\ out # <<>>
    /\ file' = [file EXCEPT !.text = Append(file.text, Head(out))]
    /\ out' = Tail(out)
    /\ UNCHANGED <<logfile, data, pc, cmd, now, last, calls, runs, hist, order, tvars>>

\* The with block ends, the file is closed, True is returned.
SaveClose ==
    /\ pc = "writing"
    /\ out = <<>>
    /\ pc' = "exit"
    /\ last' = Called("save", NoIp, TRUE, 0, NoVal)
    /\ hist' = [hist EXCEPT !.done = TRUE]
    /\ UNCHANGED <<file, logfile, data, cmd, now, out, calls, runs, order, tvars>>

\* A write raises (the disk is full): `except Exception` returns False and
\* what was written stays in the file.
SaveFail ==
    /\ pc = "writing"
    /\ out # <<>>
    /\ out' = <<>>
    /\ pc' = "exit"
    /\ last' = Called("save", NoIp, FALSE, 0, NoVal)
    /\ UNCHANGED <<file, logfile, data, cmd, now, calls, runs, hist, order, tvars>>

\* main returns.
Exit ==
    /\ pc = "exit"
    /\ pc' = "down"
    /\ cmd' = "none"
    /\ data' = NoData
    /\ last' = Called("exit", NoIp, last.ok, 0, NoVal)
    /\ order' = NoOrder
    /\ UNCHANGED <<file, logfile, now, out, calls, runs, hist, tvars>>

\* The process is killed or the machine loses power during a save: memory
\* is lost, the file keeps what was written to it.
Crash ==
    /\ pc = "writing"
    /\ pc' = "down"
    /\ cmd' = "none"
    /\ data' = NoData
    /\ out' = <<>>
    /\ last' = Called("crash", NoIp, FALSE, 0, NoVal)
    /\ order' = NoOrder
    /\ UNCHANGED <<file, logfile, now, calls, runs, hist, tvars>>

\* Runs of main on one registry file.
Next ==
    \/ \E c \in Cmds, t \in now..MaxClock : Construct(c, t)
    \/ \E ip \in IPs, t \in Times : AddDevice(ip, t)
    \/ \E t \in Times : Analyze(order, t)
    \/ SaveOpen
    \/ SaveWrite
    \/ SaveClose
    \/ SaveFail
    \/ Exit
    \/ Crash

Spec == Init /\ [][Next]_vars

\* A caller's calls on one DeviceMapper object.
NextApi ==
    \/ \E ip \in IPs, t \in Times : AddDevice(ip, t)
    \/ \E t \in Times : Analyze(order, t)
    \/ \E ip \in IPs : GetInfo(ip)
    \/ RoutingTable

SpecApi == InitApi /\ [][NextApi]_vars

\* A log in which one client asks for more than TopDomains domains, the
\* first of them twice, and another client for one.
WideDomains == <<"a.com", "b.com", "c.com", "d.com", "e.com", "f.com", "a.com">>

WideLogFiles ==
    {[exists |-> TRUE,
      lines |-> [i \in DOMAIN WideDomains |-> QueryLine(IP_A, WideDomains[i])]
                \o <<QueryLine(IP_B, "a.com")>>]}

\* A caller holds a DeviceMapper constructed where no registry file exists:
\* the registry is empty.
InitWide ==
    /\ file = AbsentFile
    /\ logfile \in WideLogFiles
    /\ data = LoadDeviceMap(AbsentFile, MaxClock)
    /\ pc = "ready"
    /\ cmd = "lib"
    /\ now = MaxClock
    /\ out = <<>>
    /\ last = Called("construct", NoIp, TRUE, 0, NoVal)
    /\ calls = 0
    /\ runs = 0
    /\ hist = NoHist
    /\ order \in Picks(logfile)
    /\ NoAnalyzer

SpecWide == InitWide /\ [][NextApi]_vars

\* -------------------------------------------------- the traffic analyzer
\* A line of the resolver's log.  kind is what the line is, as for ScanLine;
\* of a query line ip, qtype and domain are groups 1, 3 and 4 of the pattern.
TrafficLine(kind, ip, domain, qtype) ==
    [kind |-> kind, ip |-> ip, domain |-> domain, qtype |-> qtype, level |-> "info"]

TrafficShapes ==
    {TrafficLine(k, NoIp, "", "") : k \in NonQueryKinds}
    \cup {TrafficLine("query", IP_A, "x.com", "A"),
          TrafficLine("query", IP_A, "y.com", "AAAA"),
          TrafficLine("query", IP_B, "y.com", "A"),
          TrafficLine("query", IP_B, "x.com", "AAAA")}

\* The resolver stamps every line with the time it writes it.
Stamped(l) == [i \in DOMAIN l |-> Put(l[i], "time", i)]

TrafficLogs ==
    {Stamped(l) : l \in UNION {[1..n -> TrafficShapes] : n \in 0..MaxTrafficLen}}

TrafficLogFiles ==
    {[exists |-> FALSE, lines |-> <<>>]}
    \cup {[exists |-> TRUE, lines |-> l] : l \in TrafficLogs}

\* The dict parse_log_line builds of a matching line.
QueryInfo(line) ==
    [timestamp |-> line.time, client_ip |-> line.ip, query_type |-> line.qtype,
     domain |-> line.domain, level |-> line.level]

NoEvent == [none |-> TRUE]

EmptyCounter == [keys |-> <<>>, n |-> <<>>]

\* counter[k] += 1: a new key goes after the keys the Counter holds.
Incr(counter, k) ==
    IF k \in DOMAIN counter.n
      THEN [counter EXCEPT !.n[k] = @ + 1]
      ELSE [keys |-> Append(counter.keys, k), n |-> Put(counter.n, k, 1)]

\* A variant that puts the event in front of the client's list.
ClientPrepend(stats, ip, ev) ==
    Put(stats, ip, <<ev>> \o (IF ip \in DOMAIN stats THEN stats[ip] ELSE <<>>))

\* self.client_stats[client_ip].append(query_info), on a defaultdict(list).
ClientAppend(stats, ip, ev) ==
    Put(stats, ip, Append(IF ip \in DOMAIN stats THEN stats[ip] ELSE <<>>, ev))

\* A variant that does not count the query type.
AcceptedUntyped(a, ev) ==
    [queries |-> Append(a.queries, ev),
     client_stats |-> ClientAppend(a.client_stats, ev.client_ip, ev),
     domain_stats |-> Incr(a.domain_stats, ev.domain),
     query_types |-> a.query_types]

\* The four statements that record an event.
Accepted(a, ev) ==
    [queries |-> Append(a.queries, ev),
     client_stats |-> ClientAppend(a.client_stats, ev.client_ip, ev),
     domain_stats |-> Incr(a.domain_stats, ev.domain),
     query_types |-> Incr(a.query_types, ev.query_type)]

\* A variant that counts the domain of a line before the pattern is tried.
ParseLogLineCountingFirst(a, line) ==
    IF line.kind = "nonobj" THEN [raised |-> TRUE, event |-> NoEvent, agg |-> a]
    ELSE IF line.kind = "query"
      THEN [raised |-> FALSE, event |-> QueryInfo(line), agg |-> Accepted(a, QueryInfo(line))]
    ELSE IF line.kind = "nomatch"
      THEN [raised |-> FALSE, event |-> NoEvent,
            agg |-> [a EXCEPT !.domain_stats = Incr(a.domain_stats, line.domain)]]
    ELSE [raised |-> FALSE, event |-> NoEvent, agg |-> a]

\* parse_log_line on the aggregates a: whether it raises, what it returns,
\* the aggregates it leaves.  Only JSONDecodeError is caught: on a line that
\* is JSON but no object with a string message, log_entry.get or the `in`
\* test raises AttributeError or TypeError.
ParseLogLine(a, line) ==
    IF line.kind = "nonobj" THEN [raised |-> TRUE, event |-> NoEvent, agg |-> a]
    ELSE IF line.kind = "query"
      THEN [raised |-> FALSE, event |-> QueryInfo(line), agg |-> Accepted(a, QueryInfo(line))]
    ELSE [raised |-> FALSE, event |-> NoEvent, agg |-> a]

\* The items of a Counter, in the order of its keys.
Items(counter) ==
    [i \in DOMAIN counter.keys |-> [key |-> counter.keys[i], count |-> counter.n[counter.keys[i]]]]

\* A variant that puts an item in front of the items of equal count.
InsertBeforeTies(s, item) ==
    LET k == Cardinality({i \in DOMAIN s : s[i].count > item.count})
    IN SubSeq(s, 1, k) \o <<item>> \o SubSeq(s, k + 1, Len(s))

\* Where a stable sort by count, largest first, puts the next item: behind
\* the items of greater or equal count.
InsertByCount(s, item) ==
    LET k == Cardinality({i \in DOMAIN s : s[i].count >= item.count})
    IN SubSeq(s, 1, k) \o <<item>> \o SubSeq(s, k + 1, Len(s))

RECURSIVE SortedFrom(_, _, _)
SortedFrom(items, i, s) ==
    IF i > Len(items) THEN s ELSE SortedFrom(items, i + 1, InsertByCount(s, items[i]))

\* sorted(counter.items(), key=itemgetter(1), reverse=True)
SortedByCount(counter) == SortedFrom(Items(counter), 1, <<>>)

\* Counter.most_common(n)
MostCommon(counter, n) == Take(SortedByCount(counter), n)

\* s[-n:]
LastOf(s, n) == SubSeq(s, Len(s) - Min(n, Len(s)) + 1, Len(s))

\* What generate_report prints of the aggregates.
GenerateReport(a) ==
    IF a.queries = <<>> THEN NoReport
    ELSE [top_domains |-> MostCommon(a.domain_stats, TopReported),
          query_types |-> SortedByCount(a.query_types),
          recent |-> LastOf(a.queries, RecentShown)]

\* The aggregates of the analyzer object.
Aggregates ==
    [queries |-> queries, client_stats |-> client_stats,
     domain_stats |-> domain_stats, query_types |-> query_types]

\* analyzer = DNSTrafficAnalyzer(args.log_file): main has an analyzer whose
\* aggregates are empty, the log is on disk or is not.
InitTraffic ==
    /\ file = AbsentFile
    /\ logfile \in TrafficLogFiles
    /\ data = NoData
    /\ pc = "down"
    /\ cmd = "none"
    /\ now = 0
    /\ out = <<>>
    /\ last = Called("init", NoIp, TRUE, 0, NoVal)
    /\ calls = 0
    /\ runs = 0
    /\ hist = NoHist
    /\ order = NoOrder
    /\ queries = <<>>
    /\ client_stats = <<>>
    /\ domain_stats = EmptyCounter
    /\ query_types = EmptyCounter
    /\ tpc = "new"
    /\ tpos = 0
    /\ exc = "none"
    /\ report = NoReport

\* analyze_log_file opens the log: FileNotFoundError makes it return False.
AnalyzeOpen ==
    /\ tpc = "new"
    /\ tpc' = IF logfile.exists THEN "reading" ELSE "notfound"
    /\ UNCHANGED <<logfile, mvars, queries, client_stats, domain_stats, query_types,
                   tpos, exc, report>>

\* One pass of the loop: the next line is read and given to parse_log_line.
\* What parse_log_line raises leaves analyze_log_file, which catches only
\* FileNotFoundError.
ReadLine ==
    /\ tpc = "reading"
    /\ tpos < Len(logfile.lines)
    /\ tpos' = tpos + 1
    /\ LET r == ParseLogLine(Aggregates, logfile.lines[tpos + 1])
       IN /\ queries' = r.agg.queries
          /\ client_stats' = r.agg.client_stats
          /\ domain_stats' = r.agg.domain_stats
          /\ query_types' = r.agg.query_types
          /\ tpc' = IF r.raised THEN "raised" ELSE "reading"
          /\ exc' = IF r.raised THEN "AttributeError" ELSE "none"
    /\ UNCHANGED <<logfile, mvars, report>>

\* Reading the next line fails (an I/O error of the device): the OSError is
\* no FileNotFoundError and leaves analyze_log_file.
ReadError ==
    /\ tpc = "reading"
    /\ tpos < Len(logfile.lines)
    /\ tpc' = "raised"
    /\ exc' = "OSError"
    /\ UNCHANGED <<logfile, mvars, queries, client_stats, domain_stats, query_types,
                   tpos, report>>

\* The file is at its end: analyze_log_file returns True.
AnalyzeDone ==
    /\ tpc = "reading"
    /\ tpos = Len(logfile.lines)
    /\ tpc' = "analyzed"
    /\ UNCHANGED <<logfile, mvars, queries, client_stats, domain_stats, query_types,
                   tpos, exc, report>>

\* main: `if analyzer.analyze_log_file(): analyzer.generate_report()`
Report ==
    /\ tpc = "analyzed"
    /\ report' = GenerateReport(Aggregates)
    /\ tpc' = "reported"
    /\ UNCHANGED <<logfile, mvars, queries, client_stats, domain_stats, query_types,
                   tpos, exc>>

\* A run of the traffic analyzer's main.
NextTraffic ==
    \/ AnalyzeOpen
    \/ ReadLine
    \/ ReadError
    \/ AnalyzeDone
    \/ Report

SpecTraffic == InitTraffic /\ [][NextTraffic]_vars

\* ------------------------------------------------- both tools on one log
\* Logs of three lines: two queries of one client for two domains and one
\* line that is not JSON, in any order.
EndToEndLogs ==
    {l \in TrafficLogs :
        /\ Len(l) = 3
        /\ Cardinality({i \in DOMAIN l : l[i].kind = "garbage"}) = 1
        /\ Cardinality({i \in DOMAIN l : l[i].kind = "query"}) = 2
        /\ Cardinality({l[i].ip : i \in {j \in DOMAIN l : l[j].kind = "query"}}) = 1
        /\ Cardinality({l[i].domain : i \in {j \in DOMAIN l : l[j].kind = "query"}}) = 2}

\* The log is on disk; main of the traffic analyzer has its analyzer, and a
\* caller holds a DeviceMapper constructed where no registry file exists.
InitEndToEnd ==
    /\ file = AbsentFile
    /\ logfile \in {[exists |-> TRUE, lines |-> l] : l \in EndToEndLogs}
    /\ data = LoadDeviceMap(AbsentFile, 0)
    /\ pc = "ready"
    /\ cmd = "lib"
    /\ now = 0
    /\ out = <<>>
    /\ last = Called("construct", NoIp, TRUE, 0, NoVal)
    /\ calls = 0
    /\ runs = 0
    /\ hist = NoHist
    /\ order \in Picks(logfile)
    /\ queries = <<>>
    /\ client_stats = <<>>
    /\ domain_stats = EmptyCounter
    /\ query_types = EmptyCounter
    /\ tpc = "new"
    /\ tpos = 0
    /\ exc = "none"
    /\ report = NoReport

\* The traffic analyzer reads the log; the caller analyzes it into the
\* registry and asks for the routing table.
NextEndToEnd ==
    \/ AnalyzeOpen
    \/ ReadLine
    \/ ReadError
    \/ AnalyzeDone
    \/ Report
    \/ \E t \in Times : Analyze(order, t)
    \/ RoutingTable

SpecEndToEnd == InitEndToEnd /\ [][NextEndToEnd]_vars

\* ------------------------------------------------------------- claims
\* What a log says, counted from its lines alone.
QueryLinesOf(lines, ip) ==
    {i \in DOMAIN lines : lines[i].kind = "query" /\ lines[i].ip = ip}

QueryCount(lines, ip) == Cardinality(QueryLinesOf(lines, ip))

Observed(lines) == {ip \in IPs : QueryCount(lines, ip) >= 1}

\* The last octet of each address of the model, written out.
OctetOf(ip) == IF ip = IP_A THEN <<"5">> ELSE <<"1", "2">>

\* The step is a call of op on a constructed object.
CallStep(op) ==
    /\ pc = "ready"
    /\ last'.op = op
    /\ (calls' = calls + 1 \/ pc' # "ready")

HasCount(devs, ip, n) ==
    /\ ip \in DOMAIN devs
    /\ "query_count" \in DOMAIN devs[ip]
    /\ devs[ip].query_count = n

\* C1: after analyze_dns_log has run twice in a row on the same log (each
\* run returning True), every IP observed in the log has a query_count equal
\* to the number of its queries in that one log: the second run overwrites
\* the count of the first, for an IP registered before as for one the first
\* run provisioned.
C1_OverwriteNotAccumulate ==
    (last.op = "analyze" /\ last.ok /\ last.streak = 2) =>
        \A ip \in Observed(logfile.lines) :
            HasCount(data.devices, ip, QueryCount(logfile.lines, ip))

\* Two runs on a log with one query of each client, IP_A registered before
\* with an older count, IP_B provisioned by the first run.
C1_Witness ==
    /\ last.op = "analyze" /\ last.ok /\ last.streak = 2
    /\ Observed(logfile.lines) = IPs
    /\ HasCount(data.devices, IP_A, 1)
    /\ HasCount(data.devices, IP_B, 1)
    /\ data.devices[IP_A].name = <<"Laptop">>
    /\ data.devices[IP_B].name = <<"Auto-detected-", "1", "2">>

\* C2: a run of analyze_dns_log that returns True creates, for every IP with
\* n >= 1 queries in the log and no entry in the registry, an entry named
\* "Auto-detected-<last octet>", of type and category "Unknown", whose
\* description cites n and whose query_count is n; every entry it creates is
\* of an IP observed in the log.
C2_AutoProvision ==
    [][(CallStep("analyze") /\ last'.ok) =>
        /\ \A ip \in Observed(logfile.lines) \ DOMAIN data.devices :
              /\ HasCount(data'.devices, ip, QueryCount(logfile.lines, ip))
              /\ data'.devices[ip].name = <<"Auto-detected-">> \o OctetOf(ip)
              /\ data'.devices[ip].type = <<"Unknown">>
              /\ data'.devices[ip].category = <<"Unknown">>
              /\ data'.devices[ip].description[2] = ToString(QueryCount(logfile.lines, ip))
        /\ DOMAIN data'.devices \ DOMAIN data.devices \subseteq Observed(logfile.lines)
      ]_vars

\* A run on a log with two queries of IP_B alone, against a registry with
\* neither address: IP_B is provisioned with count 2, IP_A is not created.
C2_Witness ==
    /\ last.op = "analyze" /\ last.ok /\ last.streak = 1
    /\ calls = 1
    /\ DOMAIN data.devices = {IP_B}
    /\ HasCount(data.devices, IP_B, 2)
    /\ data.devices[IP_B].name = <<"Auto-detected-", "1", "2">>
    /\ data.devices[IP_B].description =
          <<"Auto-detected from DNS logs with ", "2", " queries">>

\* C3: after a crash during save_device_map the registry file holds either
\* what it held before the save or the complete new text.
C3_SaveAtomic ==
    last.op = "crash" => (file = hist.before \/ file.text = hist.text)

\* C4: get_device_info leaves the device mapping as it was (an absent ip is
\* not inserted) and returns the stored record of a registered ip, otherwise
\* a placeholder named "Unknown-<last octet>" of type and category "Unknown".
C4_GetIsPureRead ==
    [][CallStep("get") =>
        /\ data'.devices = data.devices
        /\ IF last'.ip \in DOMAIN data.devices
             THEN last'.val = data.devices[last'.ip]
             ELSE /\ last'.val.name = <<"Unknown-">> \o OctetOf(last'.ip)
                  /\ last'.val.type = <<"Unknown">>
                  /\ last'.val.category = <<"Unknown">>
      ]_vars

\* get_device_info was called on an address the registry does not hold.
C4_Witness ==
    /\ last.op = "get"
    /\ last.ip = IP_B
    /\ IP_B \notin DOMAIN data.devices
    /\ IP_A \in DOMAIN data.devices
    /\ last.val.name = <<"Unknown-", "1", "2">>

\* C5: add_device on an IP the registry already holds leaves the device's
\* `added` timestamp as it was.
C5_AddedStampedOnce ==
    [][(CallStep("add") /\ last'.ip \in DOMAIN data.devices
            /\ "added" \in DOMAIN data.devices[last'.ip]) =>
        /\ "added" \in DOMAIN data'.devices[last'.ip]
        /\ data'.devices[last'.ip].added = data.devices[last'.ip].added
      ]_vars

\* C6: add_device on an IP that has activity data leaves its query_count and
\* common_domains as they were.
C6_AddKeepsActivity ==
    [][(CallStep("add") /\ last'.ip \in DOMAIN data.devices
            /\ "query_count" \in DOMAIN data.devices[last'.ip]) =>
        /\ HasCount(data'.devices, last'.ip, data.devices[last'.ip].query_count)
        /\ "common_domains" \in DOMAIN data'.devices[last'.ip]
        /\ data'.devices[last'.ip].common_domains
              = data.devices[last'.ip].common_domains
      ]_vars

\* The lines of the log are all lines the scan gets past.
ScanCompletes(lines) == \A i \in DOMAIN lines : lines[i].kind # "nonobj"

Malformed(devs, ip) == ip \in DOMAIN devs /\ ~IsDict(devs[ip])

\* C7: when the update of an observed IP cannot be applied because its
\* record is malformed, analyze_dns_log skips that IP, still gives every other
\* observed IP its query_count, and returns True.
C7_FailureIsolatedPerDevice ==
    [][(CallStep("analyze") /\ logfile.exists /\ ScanCompletes(logfile.lines)
            /\ \E ip \in Observed(logfile.lines) : Malformed(data.devices, ip)) =>
        /\ last'.ok
        /\ \A ip \in Observed(logfile.lines) :
              IF Malformed(data.devices, ip)
                THEN data'.devices[ip] = data.devices[ip]
                ELSE HasCount(data'.devices, ip, QueryCount(logfile.lines, ip))
      ]_vars

\* C8: when the log file does not exist, analyze_dns_log returns False and
\* leaves self.data and the registry file as they were, and main then returns
\* without calling save_device_map, so the file stays as it was.
C8_MissingLogAborts ==
    [][/\ (CallStep("analyze") /\ ~logfile.exists) =>
            /\ ~last'.ok
            /\ data' = data
            /\ file' = file
            /\ (cmd = "analyze" => pc' = "exit")
       /\ (pc = "exit" /\ last.op = "analyze" /\ ~logfile.exists) =>
            /\ pc' = "down"
            /\ file' = file
      ]_vars

\* main --analyze on a missing log, against a registry file with two devices:
\* the call has returned False and main is about to return.
C8_Witness ==
    /\ ~logfile.exists
    /\ cmd = "analyze"
    /\ pc = "exit"
    /\ last.op = "analyze" /\ ~last.ok
    /\ DOMAIN data.devices = IPs
    /\ file.text = RegistryText(data.devices)

\* C9: a DeviceMapper constructed on the file a save_device_map that returned
\* True has written holds the devices, field for field, the network range, the
\* source label and the insights that self.data held when save_device_map was
\* called.
C9_RoundTrip ==
    (pc = "ready" /\ last.op = "construct" /\ hist.done) =>
        /\ data.devices = hist.data.devices
        /\ data.network_insights = hist.data.network_insights
        /\ data.metadata.network_range = hist.data.metadata.network_range
        /\ data.metadata.source = hist.data.metadata.source

\* A second run has loaded a registry of two devices, one with activity
\* fields, that the first run saved.
C9_Witness ==
    /\ pc = "ready" /\ last.op = "construct" /\ hist.done
    /\ DOMAIN data.devices = IPs
    /\ HasCount(data.devices, IP_A, 1)
    /\ file # hist.before

\* C10: constructing a DeviceMapper on a registry file that is absent,
\* unreadable or not decodable does not fail and yields the empty map.
C10_LoadDegrades ==
    (last.op = "construct"
        /\ (~file.exists \/ ~file.perm \/ ~Decodable(file.text))) =>
        /\ last.ok
        /\ data.metadata.total_devices = 0
        /\ data.devices = <<>>
        /\ data.network_insights = EmptyInsights

\* C11: starting from an empty registry, after any sequence of add_device
\* and analyze_dns_log calls every query_count stored on a device is a
\* non-negative integer and every common_domains list has at most 5 entries,
\* no domain twice.
C11_DeviceInvariant ==
    \A ip \in DOMAIN data.devices :
        LET rec == data.devices[ip]
        IN /\ "query_count" \in DOMAIN rec => rec.query_count \in Nat
           /\ "common_domains" \in DOMAIN rec =>
                 /\ Len(rec.common_domains) <= 5
                 /\ \A i, j \in DOMAIN rec.common_domains :
                        rec.common_domains[i] = rec.common_domains[j] => i = j

\* A second analysis of a log with six domains of one client has run.
C11_Witness ==
    /\ last.op = "analyze" /\ last.streak = 2
    /\ IP_A \in DOMAIN data.devices
    /\ data.devices[IP_A].query_count = 7
    /\ Len(data.devices[IP_A].common_domains) = 5

\* The lines analyze_log_file has read so far.
LinesRead == SubSeq(logfile.lines, 1, tpos)

\* C12: a line that is no query (not JSON, JSON without a usable message, a
\* message without the query marker or shape) is passed over without an
\* exception and without an event, and the loop goes on to the next line.
C12_NonQueryNeverAborts ==
    [][(/\ tpc = "reading"
        /\ tpos < Len(logfile.lines)
        /\ logfile.lines[tpos + 1].kind \in {"garbage", "nonobj", "nomarker"}
        /\ exc' # "OSError")
       => (/\ tpc' = "reading"
           /\ tpos' = tpos + 1
           /\ UNCHANGED <<queries, client_stats, domain_stats, query_types>>)]_vars

\* The domains of the query lines read, and how often and where first.
DomainsRead == {LinesRead[i].domain : i \in {j \in DOMAIN LinesRead : LinesRead[j].kind = "query"}}

TimesRead(d) ==
    Cardinality({i \in DOMAIN LinesRead : LinesRead[i].kind = "query" /\ LinesRead[i].domain = d})

FirstRead(d) ==
    CHOOSE i \in DOMAIN LinesRead :
        /\ LinesRead[i].kind = "query" /\ LinesRead[i].domain = d
        /\ \A j \in 1..(i - 1) : ~(LinesRead[j].kind = "query" /\ LinesRead[j].domain = d)

\* C16: the report ranks the domains by count, largest first, and domains of
\* equal count in the order in which they were first seen in the log.
C16_StableRanking ==
    (tpc = "reported" /\ report # NoReport) =>
        LET top == report.top_domains
        IN /\ {top[i].key : i \in DOMAIN top} = DomainsRead
           /\ Len(top) = Cardinality(DomainsRead)
           /\ \A i \in DOMAIN top : top[i].count = TimesRead(top[i].key)
           /\ \A i, j \in DOMAIN top :
                 i < j => \/ top[i].count > top[j].count
                          \/ /\ top[i].count = top[j].count
                             /\ FirstRead(top[i].key) < FirstRead(top[j].key)

\* A report of two domains of equal count has been printed.
C16_Witness ==
    /\ tpc = "reported" /\ report # NoReport
    /\ Len(report.top_domains) = 2
    /\ report.top_domains[1].count = report.top_domains[2].count

\* C17: when reading the log fails (the file is missing, or an I/O error
\* strikes part-way), the analyzer holds none of the events of that read.
C17_NoPartialResults ==
    (tpc = "notfound" \/ (tpc = "raised" /\ exc = "OSError")) =>
        /\ queries = <<>>
        /\ client_stats = <<>>
        /\ domain_stats = EmptyCounter
        /\ query_types = EmptyCounter

RECURSIVE SumOver(_, _)
SumOver(f, S) ==
    IF S = {} THEN 0
    ELSE LET k == CHOOSE x \in S : TRUE IN f[k] + SumOver(f, S \ {k})

\* C19: the number of query lines read so far equals the length of queries,
\* the sum of the lengths of the per-client lists, the sum of the domain
\* counts and the sum of the query-type counts; so each accepted line adds
\* exactly one to each of the four.
C19_Conservation ==
    LET accepted == Cardinality({i \in DOMAIN LinesRead : LinesRead[i].kind = "query"})
    IN /\ Len(queries) = accepted
       /\ SumOver([ip \in DOMAIN client_stats |-> Len(client_stats[ip])], DOMAIN client_stats) = accepted
       /\ SumOver(domain_stats.n, DOMAIN domain_stats.n) = accepted
       /\ SumOver(query_types.n, DOMAIN query_types.n) = accepted

\* Three lines are read: two queries of different clients and domains, and
\* a line that is no query.
C19_Witness ==
    /\ tpos = 3 /\ Len(queries) = 2
    /\ Cardinality(DOMAIN client_stats) = 2
    /\ Len(domain_stats.keys) = 2

\* The queries of one client, in the order of the global list.
QueriesOf(ip) == SelectSeq(queries, LAMBDA q : q.client_ip = ip)

\* C20: the list client_stats holds for a client is the subsequence of
\* queries with that client_ip, in the same order (a client without events
\* has no list), so its last k entries are its k most recent queries.
C20_ClientOrder ==
    /\ \A ip \in DOMAIN client_stats : client_stats[ip] = QueriesOf(ip)
    /\ \A ip \in IPs : ip \notin DOMAIN client_stats => QueriesOf(ip) = <<>>

\* Two queries of one client with a query of another client in between.
C20_Witness ==
    /\ Len(queries) = 3
    /\ queries[1].client_ip = IP_A /\ queries[2].client_ip = IP_B
    /\ queries[3].client_ip = IP_A
    /\ Len(client_stats[IP_A]) = 2

\* The domains a client asks for in a log, each once, in the order in
\* which the log first shows them.
RECURSIVE FirstSeenFrom(_, _, _, _)
FirstSeenFrom(lines, ip, i, seen) ==
    IF i > Len(lines) THEN seen
    ELSE FirstSeenFrom(lines, ip, i + 1,
            IF /\ lines[i].kind = "query" /\ lines[i].ip = ip
               /\ \A j \in DOMAIN seen : seen[j] # lines[i].domain
              THEN Append(seen, lines[i].domain) ELSE seen)

FirstSeenDomains(lines, ip) == FirstSeenFrom(lines, ip, 1, <<>>)

\* C13: after an analysis that returned True, common_domains of every
\* observed client is the first up to 5 of its distinct domains in the
\* order in which the log first shows them.
C13_FirstSeenOrder ==
    [][(CallStep("analyze") /\ last'.ok) =>
         \A ip \in Observed(logfile.lines) :
            data'.devices[ip].common_domains
              = SubSeq(FirstSeenDomains(logfile.lines, ip), 1,
                       Min(5, Len(FirstSeenDomains(logfile.lines, ip))))]_vars

\* C14: a routing table that is returned has one entry per registered
\* device, 10.0.0.12 before 10.0.0.5 (ascending order of the strings); an
\* entry's activity is the device's query_count, 0 when it has none, its
\* top_domains the first at most 3 of common_domains, its last_seen the
\* device's added.
C14_RoutingTable ==
    [][(CallStep("routing") /\ last'.ok) =>
         LET table == last'.val
             devs == data.devices
         IN /\ {table[i].ip : i \in DOMAIN table} = DOMAIN devs
            /\ Len(table) = Cardinality(DOMAIN devs)
            /\ DOMAIN devs = IPs => (table[1].ip = IP_B /\ table[2].ip = IP_A)
            /\ \A i \in DOMAIN table :
                 LET dev == devs[table[i].ip]
                 IN /\ table[i].activity =
                         (IF "query_count" \in DOMAIN dev THEN dev.query_count ELSE 0)
                    /\ table[i].top_domains =
                         (IF "common_domains" \in DOMAIN dev
                            THEN SubSeq(dev.common_domains, 1, Min(3, Len(dev.common_domains)))
                            ELSE <<>>)
                    /\ table[i].last_seen = dev.added]_vars

\* A table of two devices has been returned, one of them with five
\* common domains.
C14_Witness ==
    /\ last.op = "routing" /\ last.ok
    /\ Len(last.val) = 2
    /\ Len(data.devices[IP_A].common_domains) = 5

\* The IP keys written in the devices block of a registry text.
PersistedKeys(text) == {text[i].ip : i \in {j \in DOMAIN text : text[j].t = "device"}}

\* C18: once save_device_map has returned True, the total_devices the file
\* holds in its metadata is the number of keys of the devices it holds.
C18_TotalMatchesDevices ==
    hist.done =>
        /\ Decodable(file.text)
        /\ file.text[2].v.total_devices = Cardinality(PersistedKeys(file.text))

\* A save has returned True that wrote two devices over a file of one.
C18_Witness ==
    /\ hist.done
    /\ Cardinality(PersistedKeys(file.text)) = 2
    /\ Cardinality(PersistedKeys(hist.before.text)) = 1

\* C15: on a log of two queries of one client for two domains and one
\* line that is not JSON, against an empty registry: the traffic analyzer
\* that read the log holds exactly 2 events, the analysis returns True and
\* leaves exactly one device, with query_count 2, and the routing table
\* then has one entry.
C15_EndToEnd ==
    /\ tpc \in {"analyzed", "reported"} => Len(queries) = 2
    /\ last.op = "analyze" =>
         /\ last.ok
         /\ Cardinality(DOMAIN data.devices) = 1
         /\ \A ip \in DOMAIN data.devices : data.devices[ip].query_count = 2
    /\ (last.op = "routing" /\ DOMAIN data.devices # {}) =>
         /\ last.ok
         /\ Len(last.val) = 1
         /\ last.val[1].activity = 2

\* The traffic analyzer has reported, the log is analyzed into the registry
\* and the routing table is returned.
C15_Witness ==
    /\ tpc = "reported" /\ Len(queries) = 2
    /\ last.op = "routing" /\ Len(last.val) = 1

\* No client key without an event, no domain or query type counted that
\* no event of queries carries.
NoPartialQuery ==
    /\ \A ip \in DOMAIN client_stats : client_stats[ip] # <<>>
    /\ \A d \in DOMAIN domain_stats.n : \E i \in DOMAIN queries : queries[i].domain = d
    /\ \A q \in DOMAIN query_types.n : \E i \in DOMAIN queries : queries[i].query_type = q

\* C21: reading a line of which parse_log_line returns no event (a line
\* that is not JSON, a message without the query marker, a marker without
\* the pattern) leaves queries, the per-client lists, the domain table and
\* the query-type table as they were, and no partial Query appears.
C21_NoEventChangesNothing ==
    [][(/\ tpc = "reading"
        /\ tpos' = tpos + 1
        /\ logfile.lines[tpos + 1].kind \in {"garbage", "nomarker", "nomatch"})
       => (/\ UNCHANGED <<queries, client_stats, domain_stats, query_types>>
           /\ NoPartialQuery'
           /\ tpc' = "reading")]_vars

\* A line with the marker that does not match the pattern has been read
\* after a query.
C21_Witness ==
    /\ tpc = "reading" /\ tpos = 2
    /\ Len(queries) = 1
    /\ logfile.lines[2].kind = "nomatch"

\* The fields add_device writes.
IdentityFields == {"name", "type", "category", "description", "added"}

\* C22: analyze_dns_log, whatever it returns, removes no registered IP and
\* registers none that the log does not show; a device whose IP the log
\* does not show keeps every field (its query_count and common_domains of
\* an earlier run included), and a registered device whose IP the log shows
\* keeps its name, type, category, description and added.
C22_ReconcileFrame ==
    [][CallStep("analyze") =>
         /\ DOMAIN data.devices \subseteq DOMAIN data'.devices
         /\ DOMAIN data'.devices \ DOMAIN data.devices \subseteq Observed(logfile.lines)
         /\ \A ip \in DOMAIN data.devices :
               IF ip \in Observed(logfile.lines) /\ ~Malformed(data.devices, ip)
                 THEN \A f \in IdentityFields :
                         /\ f \in DOMAIN data'.devices[ip]
                         /\ data'.devices[ip][f] = data.devices[ip][f]
                 ELSE data'.devices[ip] = data.devices[ip]]_vars

\* An analysis has returned True on a log that shows one of two registered
\* devices: that one has the run's count under its own name, the other
\* still the activity of an earlier run.
C22_Witness ==
    /\ last.op = "analyze" /\ last.ok
    /\ Observed(logfile.lines) = {IP_A}
    /\ DOMAIN data.devices = IPs
    /\ data.devices[IP_B] = ActiveDev
    /\ data.devices[IP_A].name = PlainDev.name
    /\ data.devices[IP_A].query_count = QueryCount(logfile.lines, IP_A)

====
